---- MODULE Spec2Model ----
(***************************************************************************)
(* Buffer cache (kernel/bio.c) and sharded page-frame allocator            *)
(* (kernel/kalloc.c) of xv6-lab-2020, as state machines.                   *)
(*                                                                         *)
(* Threads 1..NTHREADS run on distinct cores and call bread, bwrite,       *)
(* brelse, bpin and bunpin.  A spinlock critical section that is entered   *)
(* and left inside one function without touching another lock is one       *)
(* step; where bget keeps spinlocks across statements (the eviction path,  *)
(* lines 104-217) every acquire is a step of its own, and the parts of     *)
(* that path that read or write bucket idx (the re-check, the re-scan, the *)
(* unlink and the insert of the migration) are separate steps, because     *)
(* they can run without holding bucket idx's spinlock.                     *)
(***************************************************************************)
EXTENDS Integers, Sequences, FiniteSets, TLC

\* ---------------------------------------------------------------- sizes
\* bio.c:26 has NBUCKET 13 and param.h NBUF 30; the model keeps the round
\* robin layout of binit with fewer buckets and buffers.
NBUCKET == 3
NBUF == 6
NTHREADS == 2
\* threads of the cold-miss scenario, one bread each
NCOLD == 4
\* block numbers a caller may ask for: NBLK of them hash to the last bucket
NBLK == 3
\* most buffers one thread keeps checked out at a time
MaxHeld == 2
\* most outstanding bpin calls on one buffer
MaxPin == 1
\* payloads are 0..MaxPayload
MaxPayload == 1

NULL == -1
NoThread == 0
\* the sharded allocator: cores 0..NCPU-1 (param.h has NCPU 8), frames 1..NFRAMES
NCPU == 3
NFRAMES == 4
\* most page table entries sharing one frame (shared-refcounted build)
MaxRef == 3
\* what memset(r, 5, PGSIZE) leaves in the next field of a frame handed out
Junk == -2

Cores == 0 .. (NCPU - 1)
Frames == 1 .. NFRAMES
\* an address kfree refuses: misaligned, below end or at or above PHYSTOP
BadAddrs == {0}
Bufs == 0 .. (NBUF - 1)
Buckets == 0 .. (NBUCKET - 1)
Threads == 1 .. NTHREADS
ColdThreads == 1 .. NCOLD
AllThreads == Threads \cup ColdThreads
Payloads == 0 .. MaxPayload
\* the device every request names (ROOTDEV); binit leaves dev = 0 in the buffers
Devs == {1}
Blocks == {k * NBUCKET + (NBUCKET - 1) : k \in 0 .. (NBLK - 1)}
\* the block the t-th cold thread reads: distinct, all in the last bucket
ColdBlk(t) == (t - 1) * NBUCKET + (NBUCKET - 1)
DiskBlocks == Blocks \cup {ColdBlk(t) : t \in ColdThreads} \cup {0}

\* &bcache.bkt[k].head as a list node; buffers are nodes 0..NBUF-1
BktHead(k) == NBUF + k
Nodes == 0 .. (NBUF + NBUCKET - 1)

VARIABLES
  dev,       \* b->dev
  blockno,   \* b->blockno
  valid,     \* b->valid
  refcnt,    \* b->refcnt
  data,      \* b->data, one payload value for the whole block
  next,      \* b->next, head.next
  prev,      \* b->prev, head.prev
  sleeplk,   \* b->lock: the thread holding it, NoThread when free
  bktlock,   \* bcache.bkt[k].lock: the thread holding it
  evlock,    \* bcache.eviction: the thread holding it
  disk,      \* the block device: payload of each block
  th,        \* per thread: pc and the locals of the call it is in
  held,      \* per thread: buffers bread returned to it and it has not brelse'd
  pins,      \* per buffer: bpin calls not yet matched by bunpin
  started,   \* threads that issued their cold bread (ColdSpec only)
  panicked,  \* "" or the message of the panic that stopped the kernel
  kmem_lock, \* kmem[i].lock: the core holding it, NULL when free
  freelist,  \* kmem[i].freelist: a frame or NULL
  freepg_cnt,\* kmem[i].freepg_cnt
  run_next,  \* ((struct run*)f)->next
  cpu,       \* per core: pc and locals of kalloc/kfree
  alloc,     \* frames kalloc returned and nobody has passed to kfree yet
  cow_freelist, \* shared-refcounted build: the one free list, head first
  cow_refcnt    \* shared-refcounted build: reference count of each frame

bvars == <<dev, blockno, valid, refcnt, data, next, prev, sleeplk, bktlock,
           evlock, disk, th, held, pins, started>>
kvars == <<kmem_lock, freelist, freepg_cnt, run_next, cpu, alloc>>
cvars == <<cow_freelist, cow_refcnt>>
vars == <<dev, blockno, valid, refcnt, data, next, prev, sleeplk, bktlock,
          evlock, disk, th, held, pins, started, panicked,
          kmem_lock, freelist, freepg_cnt, run_next, cpu, alloc,
          cow_freelist, cow_refcnt>>

\* ------------------------------------------------------------ list walks
RECURSIVE WalkNext(_, _, _)
\* the buffers met following ->next from n until bucket k's head
WalkNext(n, k, fuel) ==
  IF n = BktHead(k) \/ fuel = 0 THEN <<>>
  ELSE <<n>> \o WalkNext(next[n], k, fuel - 1)

RECURSIVE WalkPrev(_, _, _)
\* the buffers met following ->prev from n until bucket k's head
WalkPrev(n, k, fuel) ==
  IF n = BktHead(k) \/ fuel = 0 THEN <<>>
  ELSE <<n>> \o WalkPrev(prev[n], k, fuel - 1)

\* for(b = head.next; b != &head; b = b->next)
ListFwd(k) == WalkNext(next[BktHead(k)], k, NBUF + 1)
\* for(b = head.prev; b != &head; b = b->prev)
ListBwd(k) == WalkPrev(prev[BktHead(k)], k, NBUF + 1)

\* the first element of seq that lies in S, NULL when there is none
FirstIn(seq, S) ==
  LET hits == {j \in 1 .. Len(seq) : seq[j] \in S}
  IN IF hits = {} THEN NULL
     ELSE seq[CHOOSE j \in hits : \A j2 \in hits : j <= j2]

Cached(d, blk) == {b \in Bufs : dev[b] = d /\ blockno[b] = blk}
Free == {b \in Bufs : refcnt[b] = 0}

\* ------------------------------------------------------------ list edits
\* b->next->prev = b->prev; b->prev->next = b->next   (on the pair <<nx, pv>>)
Unlink(np, b) ==
  LET nx == np[1]
      pv == np[2]
      pv1 == [pv EXCEPT ![nx[b]] = pv[b]]
      nx1 == [nx EXCEPT ![pv1[b]] = nx[b]]
  IN <<nx1, pv1>>

\* b->next = head.next; b->prev = &head; head.next->prev = b; head.next = b
InsertHead(np, b, k) ==
  LET nx == np[1]
      pv == np[2]
      nx1 == [nx EXCEPT ![b] = nx[BktHead(k)]]
      pv1 == [pv EXCEPT ![b] = BktHead(k)]
      pv2 == [pv1 EXCEPT ![nx1[BktHead(k)]] = b]
      nx2 == [nx1 EXCEPT ![BktHead(k)] = b]
  IN <<nx2, pv2>>

RECURSIVE BinitLists(_, _)
\* binit's second loop from buffer i on
BinitLists(i, np) ==
  IF i = NBUF THEN np
  ELSE BinitLists(i + 1, InsertHead(np, i, i % NBUCKET))

\* binit's first loop: every head points at itself
EmptyLists ==
  LET self == [n \in Nodes |-> IF n >= NBUF THEN n ELSE NULL]
  IN <<self, self>>

\* ---------------------------------------------------------------- locals
Idle == [pc |-> "idle", dev |-> 0, blk |-> 0, b |-> NULL, idx |-> 0, i |-> 0,
         free_buf |-> NULL, free_bkt |-> -1, locked_idx |-> 0]

Running == panicked = ""

\* acquire(lk) by t on a lock whose holder is h: xv6 spins while another
\* core holds it and panics("acquire") when the caller already holds it
CanAcquire(h, t) == h = NoThread \/ h = t
\* release(lk) by t panics("release") unless t holds lk
CanRelease(h, t) == h = t
\* holdingsleep(&b->lock) as called by t
holdingsleep(b, t) == sleeplk[b] = t

\* --------------------------------------------------------------- bget
\* b->dev = dev; b->blockno = blockno; b->valid = 0; b->refcnt = 1
Recycle(b, d, blk) ==
  /\ dev' = [dev EXCEPT ![b] = d]
  /\ blockno' = [blockno EXCEPT ![b] = blk]
  /\ valid' = [valid EXCEPT ![b] = 0]
  /\ refcnt' = [refcnt EXCEPT ![b] = 1]

\* bget lines 71-104: the first critical section on bucket idx
bget(t, d, blk) ==
  LET idx == blk % NBUCKET
      hit == FirstIn(ListFwd(idx), Cached(d, blk))
      lru == FirstIn(ListBwd(idx), Free)
      call == [Idle EXCEPT !.dev = d, !.blk = blk, !.idx = idx]
  IN /\ Running
     /\ th[t].pc = "idle"
     /\ Cardinality(held[t]) < MaxHeld
     /\ \A b \in held[t] : ~(dev[b] = d /\ blockno[b] = blk)
     /\ bktlock[idx] = NoThread
     /\ IF hit # NULL
        THEN /\ refcnt' = [refcnt EXCEPT ![hit] = @ + 1]
             /\ th' = [th EXCEPT ![t] = [call EXCEPT !.pc = "sleep", !.b = hit]]
             /\ UNCHANGED <<dev, blockno, valid>>
        ELSE IF lru # NULL
        THEN /\ Recycle(lru, d, blk)
             /\ th' = [th EXCEPT ![t] = [call EXCEPT !.pc = "sleep", !.b = lru]]
        ELSE /\ th' = [th EXCEPT ![t] = [call EXCEPT !.pc = "evict"]]
             /\ UNCHANGED <<dev, blockno, valid, refcnt>>
     /\ UNCHANGED <<data, next, prev, sleeplk, bktlock, evlock, disk, held,
                    pins, panicked>>
     /\ UNCHANGED <<kvars, cvars>>

\* bget lines 106-109: acquire(&bcache.eviction) and the scan's locals
bget_evict(t) ==
  /\ Running
  /\ th[t].pc = "evict"
  /\ evlock = NoThread
  /\ evlock' = t
  /\ th' = [th EXCEPT ![t].pc = "scan", ![t].i = 0, ![t].free_buf = NULL,
                      ![t].free_bkt = -1, ![t].locked_idx = 0]
  /\ UNCHANGED <<dev, blockno, valid, refcnt, data, next, prev, sleeplk,
                 bktlock, disk, held, pins, started, panicked>>
  /\ UNCHANGED <<kvars, cvars>>

\* bget lines 110-129: one iteration of the scan loop.  The inner loop walks
\* bkt[idx], not bkt[i] (line 116).
bget_scan(t) ==
  LET i == th[t].i
      idx == th[t].idx
      lk == IF i = idx THEN 1 ELSE th[t].locked_idx
      found == FirstIn(ListBwd(idx), Free)
  IN /\ Running
     /\ th[t].pc = "scan"
     /\ CanAcquire(bktlock[i], t)
     /\ IF bktlock[i] = t
        THEN /\ panicked' = "acquire"
             /\ UNCHANGED <<bktlock, th>>
        ELSE /\ UNCHANGED panicked
             /\ IF found # NULL
                THEN /\ bktlock' = [bktlock EXCEPT ![i] = t]
                     /\ th' = [th EXCEPT ![t].pc = "lockidx",
                                         ![t].locked_idx = lk,
                                         ![t].free_bkt = i,
                                         ![t].free_buf = found]
                ELSE /\ bktlock' = IF i # idx THEN bktlock
                                   ELSE [bktlock EXCEPT ![i] = t]
                     /\ th' = [th EXCEPT ![t].pc = IF i + 1 < NBUCKET
                                                   THEN "scan" ELSE "lockidx",
                                         ![t].locked_idx = lk,
                                         ![t].i = i + 1]
     /\ UNCHANGED <<dev, blockno, valid, refcnt, data, next, prev, sleeplk,
                    evlock, disk, held, pins, started>>
     /\ UNCHANGED <<kvars, cvars>>

\* bget lines 131-132: if (locked_idx == 0) acquire(&bcache.bkt[locked_idx].lock)
bget_lockidx(t) ==
  LET k == th[t].locked_idx
  IN /\ Running
     /\ th[t].pc = "lockidx"
     /\ IF k = 0
        THEN /\ CanAcquire(bktlock[k], t)
             /\ IF bktlock[k] = t
                THEN /\ panicked' = "acquire"
                     /\ UNCHANGED <<bktlock, th>>
                ELSE /\ bktlock' = [bktlock EXCEPT ![k] = t]
                     /\ th' = [th EXCEPT ![t].pc = "recheck"]
                     /\ UNCHANGED panicked
        ELSE /\ th' = [th EXCEPT ![t].pc = "recheck"]
             /\ UNCHANGED <<bktlock, panicked>>
     /\ UNCHANGED <<dev, blockno, valid, refcnt, data, next, prev, sleeplk,
                    evlock, disk, held, pins, started>>
     /\ UNCHANGED <<kvars, cvars>>

\* bget lines 136-165 (free_bkt == -1) and 169-178 (the hit re-check of the
\* else branch); the releases of bkt[idx] and of the eviction lock that end
\* every returning path are bget_release.
bget_recheck(t) ==
  LET idx == th[t].idx
      fb == th[t].free_bkt
      hit == FirstIn(ListFwd(idx), Cached(th[t].dev, th[t].blk))
      fr == FirstIn(ListFwd(idx), Free)
  IN /\ Running
     /\ th[t].pc = "recheck"
     /\ IF hit # NULL
        THEN /\ refcnt' = [refcnt EXCEPT ![hit] = @ + 1]
             /\ UNCHANGED <<dev, blockno, valid>>
             /\ IF fb = -1
                THEN /\ th' = [th EXCEPT ![t].pc = "release", ![t].b = hit]
                     /\ UNCHANGED <<bktlock, panicked>>
                ELSE IF CanRelease(bktlock[fb], t)
                THEN /\ bktlock' = [bktlock EXCEPT ![fb] = NoThread]
                     /\ th' = [th EXCEPT ![t].pc = "release", ![t].b = hit]
                     /\ UNCHANGED panicked
                ELSE /\ panicked' = "release"
                     /\ UNCHANGED <<bktlock, th>>
        ELSE IF fb # -1
        THEN /\ th' = [th EXCEPT ![t].pc = "recheck2"]
             /\ UNCHANGED <<dev, blockno, valid, refcnt, bktlock, panicked>>
        ELSE IF fr # NULL
        THEN /\ Recycle(fr, th[t].dev, th[t].blk)
             /\ th' = [th EXCEPT ![t].pc = "release", ![t].b = fr]
             /\ UNCHANGED <<bktlock, panicked>>
        ELSE /\ panicked' = "bget: no buffers"
             /\ UNCHANGED <<dev, blockno, valid, refcnt, bktlock, th>>
     /\ UNCHANGED <<data, next, prev, sleeplk, evlock, disk, held, pins, started>>
     /\ UNCHANGED <<kvars, cvars>>

\* bget lines 181-198: a free buffer of bkt[idx] found from the head is
\* recycled and bkt[free_bkt] released; else free_buf is unlinked from the
\* list it is on
bget_recheck2(t) ==
  LET idx == th[t].idx
      fb == th[t].free_bkt
      fr == FirstIn(ListFwd(idx), Free)
      np == Unlink(<<next, prev>>, th[t].free_buf)
  IN /\ Running
     /\ th[t].pc = "recheck2"
     /\ IF fr # NULL
        THEN /\ Recycle(fr, th[t].dev, th[t].blk)
             /\ UNCHANGED <<next, prev>>
             /\ IF CanRelease(bktlock[fb], t)
                THEN /\ bktlock' = [bktlock EXCEPT ![fb] = NoThread]
                     /\ th' = [th EXCEPT ![t].pc = "release", ![t].b = fr]
                     /\ UNCHANGED panicked
                ELSE /\ panicked' = "release"
                     /\ th' = [th EXCEPT ![t].b = fr]
                     /\ UNCHANGED bktlock
        ELSE /\ next' = np[1]
             /\ prev' = np[2]
             /\ th' = [th EXCEPT ![t].pc = "migrate"]
             /\ UNCHANGED <<dev, blockno, valid, refcnt, bktlock, panicked>>
     /\ UNCHANGED <<data, sleeplk, evlock, disk, held, pins, started>>
     /\ UNCHANGED <<kvars, cvars>>

\* bget lines 201-211: free_buf inserted at the head of bkt[idx] and
\* repurposed; release(&bkt[free_bkt].lock)
bget_migrate(t) ==
  LET idx == th[t].idx
      fb == th[t].free_bkt
      b == th[t].free_buf
      np == InsertHead(<<next, prev>>, b, idx)
  IN /\ Running
     /\ th[t].pc = "migrate"
     /\ Recycle(b, th[t].dev, th[t].blk)
     /\ next' = np[1]
     /\ prev' = np[2]
     /\ IF CanRelease(bktlock[fb], t)
        THEN /\ bktlock' = [bktlock EXCEPT ![fb] = NoThread]
             /\ th' = [th EXCEPT ![t].pc = "release", ![t].b = b]
             /\ UNCHANGED panicked
        ELSE /\ panicked' = "release"
             /\ th' = [th EXCEPT ![t].b = b]
             /\ UNCHANGED bktlock
     /\ UNCHANGED <<data, sleeplk, evlock, disk, held, pins, started>>
     /\ UNCHANGED <<kvars, cvars>>

\* release(&bcache.bkt[idx].lock); release(&bcache.eviction)
\* (lines 142-143, 156-157, 173-174, 188-189, 212-213)
bget_release(t) ==
  LET idx == th[t].idx
  IN /\ Running
     /\ th[t].pc = "release"
     /\ IF ~CanRelease(bktlock[idx], t)
        THEN /\ panicked' = "release"
             /\ UNCHANGED <<bktlock, evlock, th>>
        ELSE /\ bktlock' = [bktlock EXCEPT ![idx] = NoThread]
             /\ IF ~CanRelease(evlock, t)
                THEN /\ panicked' = "release"
                     /\ UNCHANGED <<evlock, th>>
                ELSE /\ evlock' = NoThread
                     /\ th' = [th EXCEPT ![t].pc = "sleep"]
                     /\ UNCHANGED panicked
     /\ UNCHANGED <<dev, blockno, valid, refcnt, data, next, prev, sleeplk,
                    disk, held, pins, started>>
     /\ UNCHANGED <<kvars, cvars>>

\* acquiresleep that does not wait for the holder
bget_sleep_nowait(t) ==
  /\ Running
  /\ th[t].pc = "sleep"
  /\ sleeplk' = [sleeplk EXCEPT ![th[t].b] = t]
  /\ th' = [th EXCEPT ![t].pc = "bread"]
  /\ UNCHANGED <<dev, blockno, valid, refcnt, data, next, prev, bktlock,
                 evlock, disk, held, pins, started, panicked>>
  /\ UNCHANGED <<kvars, cvars>>

\* acquiresleep(&b->lock); return b  (lines 78-79, 96-97, 144-145, 158-159,
\* 175-176, 190-191, 214-216): waits while another thread holds the lock
bget_sleep(t) ==
  /\ Running
  /\ th[t].pc = "sleep"
  /\ sleeplk[th[t].b] = NoThread
  /\ sleeplk' = [sleeplk EXCEPT ![th[t].b] = t]
  /\ th' = [th EXCEPT ![t].pc = "bread"]
  /\ UNCHANGED <<dev, blockno, valid, refcnt, data, next, prev, bktlock,
                 evlock, disk, held, pins, started, panicked>>
  /\ UNCHANGED <<kvars, cvars>>

\* ------------------------------------------------------- bread, bwrite
\* bread lines 229-233, after bget returned b
bread(t) ==
  LET b == th[t].b
  IN /\ Running
     /\ th[t].pc = "bread"
     /\ IF valid[b] = 0
        THEN /\ data' = [data EXCEPT ![b] = disk[blockno[b]]]
             /\ valid' = [valid EXCEPT ![b] = 1]
        ELSE UNCHANGED <<data, valid>>
     /\ held' = [held EXCEPT ![t] = @ \cup {b}]
     /\ th' = [th EXCEPT ![t] = Idle]
     /\ UNCHANGED <<dev, blockno, refcnt, next, prev, sleeplk, bktlock,
                    evlock, disk, pins, started, panicked>>
     /\ UNCHANGED <<kvars, cvars>>

\* bwrite without the holdingsleep check
bwrite_nocheck(t, b, p) ==
  /\ Running
  /\ th[t].pc = "idle"
  /\ data' = [data EXCEPT ![b] = p]
  /\ disk' = [disk EXCEPT ![blockno[b]] = p]
  /\ UNCHANGED <<dev, blockno, valid, refcnt, next, prev, sleeplk, bktlock,
                 evlock, th, held, pins, started, panicked>>
  /\ UNCHANGED <<kvars, cvars>>

\* bwrite lines 238-243; p is what the caller put in b->data before the call
bwrite(t, b, p) ==
  /\ Running
  /\ th[t].pc = "idle"
  /\ IF ~holdingsleep(b, t)
     THEN /\ panicked' = "bwrite"
          /\ UNCHANGED <<data, disk>>
     ELSE /\ data' = [data EXCEPT ![b] = p]
          /\ disk' = [disk EXCEPT ![blockno[b]] = p]
          /\ UNCHANGED panicked
  /\ UNCHANGED <<dev, blockno, valid, refcnt, next, prev, sleeplk, bktlock,
                 evlock, th, held, pins, started>>
  /\ UNCHANGED <<kvars, cvars>>

\* ------------------------------------------------ brelse, bpin, bunpin
\* brelse lines 250-255: the holdingsleep check, releasesleep, idx
brelse(t, b) ==
  /\ Running
  /\ th[t].pc = "idle"
  /\ IF ~holdingsleep(b, t)
     THEN /\ panicked' = "brelse"
          /\ UNCHANGED <<sleeplk, th, held>>
     ELSE /\ sleeplk' = [sleeplk EXCEPT ![b] = NoThread]
          /\ th' = [th EXCEPT ![t] = [Idle EXCEPT !.pc = "brelse", !.b = b,
                                           !.idx = blockno[b] % NBUCKET]]
          /\ held' = [held EXCEPT ![t] = @ \ {b}]
          /\ UNCHANGED panicked
  /\ UNCHANGED <<dev, blockno, valid, refcnt, data, next, prev, bktlock,
                 evlock, disk, pins, started>>
  /\ UNCHANGED <<kvars, cvars>>

\* brelse lines 256-269: the critical section on bkt[idx]
brelse_locked(t) ==
  LET b == th[t].b
      idx == th[t].idx
      np == IF refcnt[b] - 1 = 0
            THEN InsertHead(Unlink(<<next, prev>>, b), b, idx)
            ELSE <<next, prev>>
  IN /\ Running
     /\ th[t].pc = "brelse"
     /\ bktlock[idx] = NoThread
     /\ refcnt' = [refcnt EXCEPT ![b] = @ - 1]
     /\ next' = np[1]
     /\ prev' = np[2]
     /\ th' = [th EXCEPT ![t] = Idle]
     /\ UNCHANGED <<dev, blockno, valid, data, sleeplk, bktlock, evlock, disk,
                    held, pins, started, panicked>>
     /\ UNCHANGED <<kvars, cvars>>

\* bpin lines 273-278, called by a thread that has b checked out
bpin(t, b) ==
  /\ Running
  /\ th[t].pc = "idle"
  /\ b \in held[t]
  /\ pins[b] < MaxPin
  /\ bktlock[blockno[b] % NBUCKET] = NoThread
  /\ refcnt' = [refcnt EXCEPT ![b] = @ + 1]
  /\ pins' = [pins EXCEPT ![b] = @ + 1]
  /\ UNCHANGED <<dev, blockno, valid, data, next, prev, sleeplk, bktlock,
                 evlock, disk, th, held, started, panicked>>
  /\ UNCHANGED <<kvars, cvars>>

\* bunpin lines 281-286, called for a buffer some bpin pinned
bunpin(t, b) ==
  /\ Running
  /\ th[t].pc = "idle"
  /\ pins[b] > 0
  /\ bktlock[blockno[b] % NBUCKET] = NoThread
  /\ refcnt' = [refcnt EXCEPT ![b] = @ - 1]
  /\ pins' = [pins EXCEPT ![b] = @ - 1]
  /\ UNCHANGED <<dev, blockno, valid, data, next, prev, sleeplk, bktlock,
                 evlock, disk, th, held, started, panicked>>
  /\ UNCHANGED <<kvars, cvars>>

\* ------------------------------------------------------------- kalloc.c
RECURSIVE KWalk(_, _, _)
\* the frames of a free list from f on, following run->next as given by rn
KWalk(rn, f, fuel) ==
  IF f \notin Frames \/ fuel = 0 THEN <<>>
  ELSE <<f>> \o KWalk(rn, rn[f], fuel - 1)

\* kmem[i].freelist as a sequence
KList(i) == KWalk(run_next, freelist[i], NFRAMES + 1)

RECURSIVE Advance(_, _)
\* for (int i = 0; i < n; i++) r = r->next
Advance(r, n) == IF n <= 0 THEN r ELSE Advance(run_next[r], n - 1)

\* half rounded down
StealCnt_floor(c) == c \div 2

\* kalloc line 121: int steal_cnt = (kmem[find_cpu].freepg_cnt + 1) / 2
StealCnt(c) == (c + 1) \div 2

\* the stolen run left joined to the donor's list
CutAfter_joined(rn, last) == rn

\* kalloc line 132: r->next = 0
CutAfter(rn, last) == [rn EXCEPT ![last] = NULL]

KIdle == [pc |-> "idle", i |-> 0, locked_current |-> 0, find_cpu |-> -1]

\* kfree that pushes the frame without counting it
kfree_nocount(c, pa) ==
  /\ Running
  /\ cpu[c].pc = "idle"
  /\ IF pa \in BadAddrs
     THEN /\ panicked' = "kfree"
          /\ UNCHANGED <<run_next, freelist, alloc>>
     ELSE /\ pa \in alloc
          /\ kmem_lock[c] = NULL
          /\ run_next' = [run_next EXCEPT ![pa] = freelist[c]]
          /\ freelist' = [freelist EXCEPT ![c] = pa]
          /\ alloc' = alloc \ {pa}
          /\ UNCHANGED panicked
  /\ UNCHANGED <<kmem_lock, cpu, freepg_cnt>>
  /\ UNCHANGED <<bvars, cvars>>

\* kfree lines 51-75 on core c (push_off keeps the call on its core)
kfree(c, pa) ==
  /\ Running
  /\ cpu[c].pc = "idle"
  /\ IF pa \in BadAddrs
     THEN /\ panicked' = "kfree"
          /\ UNCHANGED <<run_next, freelist, freepg_cnt, alloc>>
     ELSE /\ pa \in alloc
          /\ kmem_lock[c] = NULL
          /\ run_next' = [run_next EXCEPT ![pa] = freelist[c]]
          /\ freelist' = [freelist EXCEPT ![c] = pa]
          /\ freepg_cnt' = [freepg_cnt EXCEPT ![c] = @ + 1]
          /\ alloc' = alloc \ {pa}
          /\ UNCHANGED panicked
  /\ UNCHANGED <<kmem_lock, cpu>>
  /\ UNCHANGED <<bvars, cvars>>

\* kalloc that starts the scan without releasing the local lock
kalloc_keeplock(c) ==
  LET r == freelist[c]
  IN /\ Running
     /\ cpu[c].pc = "idle"
     /\ kmem_lock[c] = NULL
     /\ IF r # NULL
        THEN /\ freelist' = [freelist EXCEPT ![c] = run_next[r]]
             /\ freepg_cnt' = [freepg_cnt EXCEPT ![c] = @ - 1]
             /\ run_next' = [run_next EXCEPT ![r] = Junk]
             /\ alloc' = alloc \cup {r}
             /\ UNCHANGED <<cpu, kmem_lock>>
        ELSE /\ cpu' = [cpu EXCEPT ![c] = [KIdle EXCEPT !.pc = "scan"]]
             /\ kmem_lock' = [kmem_lock EXCEPT ![c] = c]
             /\ UNCHANGED <<freelist, freepg_cnt, run_next, alloc>>
     /\ UNCHANGED panicked
     /\ UNCHANGED <<bvars, cvars>>

\* kalloc lines 85-96 on core c: the fast path, or the release before the scan
kalloc(c) ==
  LET r == freelist[c]
  IN /\ Running
     /\ cpu[c].pc = "idle"
     /\ kmem_lock[c] = NULL
     /\ IF r # NULL
        THEN /\ freelist' = [freelist EXCEPT ![c] = run_next[r]]
             /\ freepg_cnt' = [freepg_cnt EXCEPT ![c] = @ - 1]
             /\ run_next' = [run_next EXCEPT ![r] = Junk]
             /\ alloc' = alloc \cup {r}
             /\ UNCHANGED cpu
        ELSE /\ cpu' = [cpu EXCEPT ![c] = [KIdle EXCEPT !.pc = "scan"]]
             /\ UNCHANGED <<freelist, freepg_cnt, run_next, alloc>>
     /\ UNCHANGED <<kmem_lock, panicked>>
     /\ UNCHANGED <<bvars, cvars>>

\* kalloc lines 98-113: one iteration of the scan over the cores
kalloc_scan(c) ==
  LET i == cpu[c].i
      more == IF i + 1 < NCPU THEN "scan" ELSE "relock"
  IN /\ Running
     /\ cpu[c].pc = "scan"
     /\ kmem_lock[i] = NULL
     /\ IF i = c
        THEN /\ kmem_lock' = [kmem_lock EXCEPT ![c] = c]
             /\ cpu' = [cpu EXCEPT ![c].locked_current = 1, ![c].i = i + 1,
                                   ![c].pc = more]
        ELSE IF freepg_cnt[i] # 0
        THEN /\ kmem_lock' = [kmem_lock EXCEPT ![i] = c]
             /\ cpu' = [cpu EXCEPT ![c].find_cpu = i, ![c].pc = "relock"]
        ELSE /\ cpu' = [cpu EXCEPT ![c].i = i + 1, ![c].pc = more]
             /\ UNCHANGED kmem_lock
     /\ UNCHANGED <<freelist, freepg_cnt, run_next, alloc, panicked>>
     /\ UNCHANGED <<bvars, cvars>>

\* kalloc lines 115-117: if (locked_current == 0) acquire(&kmem[id].lock)
kalloc_relock(c) ==
  /\ Running
  /\ cpu[c].pc = "relock"
  /\ IF cpu[c].locked_current = 0
     THEN /\ kmem_lock[c] = NULL
          /\ kmem_lock' = [kmem_lock EXCEPT ![c] = c]
     ELSE UNCHANGED kmem_lock
  /\ cpu' = [cpu EXCEPT ![c].pc = "steal"]
  /\ UNCHANGED <<freelist, freepg_cnt, run_next, alloc, panicked>>
  /\ UNCHANGED <<bvars, cvars>>

\* kalloc lines 119-149: the steal, the pop, both releases and the return
kalloc_steal(c) ==
  LET d == cpu[c].find_cpu
      steal_cnt == StealCnt(freepg_cnt[d])
      first == freelist[d]
      last == Advance(first, steal_cnt - 1)
      \* kmem[find_cpu].freelist = r->next; r->next = 0
      rn1 == CutAfter(run_next, last)
      \* r = kmem[id].freelist; kmem[id].freelist = r->next
      r == first
  IN /\ Running
     /\ cpu[c].pc = "steal"
     /\ IF d # -1
        THEN /\ freelist' = [freelist EXCEPT ![d] = run_next[last],
                                             ![c] = rn1[r]]
             /\ freepg_cnt' = [freepg_cnt EXCEPT
                                 ![d] = @ - steal_cnt,
                                 ![c] = @ + steal_cnt - 1]
             /\ run_next' = [rn1 EXCEPT ![r] = Junk]
             /\ alloc' = alloc \cup {r}
             /\ kmem_lock' = [kmem_lock EXCEPT ![d] = NULL, ![c] = NULL]
        ELSE /\ kmem_lock' = [kmem_lock EXCEPT ![c] = NULL]
             /\ UNCHANGED <<freelist, freepg_cnt, run_next, alloc>>
     /\ cpu' = [cpu EXCEPT ![c] = KIdle]
     /\ UNCHANGED panicked
     /\ UNCHANGED <<bvars, cvars>>

\* ------------------------------------- kalloc, shared-refcounted build
\* The frames on the one free list
CowFree == {cow_freelist[j] : j \in 1 .. Len(cow_freelist)}

\* kfree that puts the frame back whatever its remaining count
cow_kfree_always(pa) ==
  /\ Running
  /\ cow_refcnt[pa] > 0
  /\ cow_refcnt' = [cow_refcnt EXCEPT ![pa] = @ - 1]
  /\ cow_freelist' = <<pa>> \o cow_freelist
  /\ UNCHANGED panicked
  /\ UNCHANGED <<bvars, kvars>>

\* kfree: the count goes down by one under the lock; the frame returns to the
\* free list only when the count reaches 0
cow_kfree(pa) ==
  /\ Running
  /\ cow_refcnt[pa] > 0
  /\ cow_refcnt' = [cow_refcnt EXCEPT ![pa] = @ - 1]
  /\ cow_freelist' = IF cow_refcnt[pa] = 1 THEN <<pa>> \o cow_freelist
                     ELSE cow_freelist
  /\ UNCHANGED panicked
  /\ UNCHANGED <<bvars, kvars>>

\* kalloc: pops the free list and sets the frame's count to 1
cow_kalloc ==
  /\ Running
  /\ cow_freelist # <<>>
  /\ cow_refcnt' = [cow_refcnt EXCEPT ![Head(cow_freelist)] = 1]
  /\ cow_freelist' = Tail(cow_freelist)
  /\ UNCHANGED panicked
  /\ UNCHANGED <<bvars, kvars>>

\* add_refcnt: one more page table entry points at a frame in use
add_refcnt(pa) ==
  /\ Running
  /\ cow_refcnt[pa] > 0
  /\ cow_refcnt[pa] < MaxRef
  /\ cow_refcnt' = [cow_refcnt EXCEPT ![pa] = @ + 1]
  /\ UNCHANGED cow_freelist
  /\ UNCHANGED panicked
  /\ UNCHANGED <<bvars, kvars>>

\* ------------------------------------------------------------------ Init
\* binit, and kinit run by core 0: freerange frees frames 1..NFRAMES in order
Init ==
  /\ dev = [b \in Bufs |-> 0]
  /\ blockno = [b \in Bufs |-> 0]
  /\ valid = [b \in Bufs |-> 0]
  /\ refcnt = [b \in Bufs |-> 0]
  /\ data = [b \in Bufs |-> 0]
  /\ next = BinitLists(0, EmptyLists)[1]
  /\ prev = BinitLists(0, EmptyLists)[2]
  /\ sleeplk = [b \in Bufs |-> NoThread]
  /\ bktlock = [k \in Buckets |-> NoThread]
  /\ evlock = NoThread
  /\ disk = [blk \in DiskBlocks |-> 0]
  /\ th = [t \in AllThreads |-> Idle]
  /\ held = [t \in AllThreads |-> {}]
  /\ pins = [b \in Bufs |-> 0]
  /\ started = {}
  /\ panicked = ""
  /\ kmem_lock = [i \in Cores |-> NULL]
  /\ freelist = [i \in Cores |-> IF i = 0 THEN NFRAMES ELSE NULL]
  /\ freepg_cnt = [i \in Cores |-> IF i = 0 THEN NFRAMES ELSE 0]
  /\ run_next = [f \in Frames |-> IF f = 1 THEN NULL ELSE f - 1]
  /\ cpu = [c \in Cores |-> KIdle]
  /\ alloc = {}
  /\ cow_freelist = [j \in 1 .. NFRAMES |-> NFRAMES + 1 - j]
  /\ cow_refcnt = [f \in Frames |-> 0]

\* ----------------------------------------------------- the buffer cache
\* the steps of a bread that is under way, and the second half of brelse
BreadSteps(t) ==
  \/ bget_evict(t)
  \/ bget_scan(t)
  \/ bget_lockidx(t)
  \/ bget_recheck(t)
  \/ bget_recheck2(t)
  \/ bget_migrate(t)
  \/ bget_release(t)
  \/ bget_sleep(t)
  \/ bread(t)
  \/ brelse_locked(t)

\* callers that keep the interface's rules (bio.c lines 8-14): bread, brelse
\* of a buffer they hold, bpin and bunpin
Next ==
  \E t \in Threads :
    \/ \E d \in Devs, blk \in Blocks : bget(t, d, blk) /\ UNCHANGED started
    \/ BreadSteps(t)
    \/ \E b \in held[t] : brelse(t, b)
    \/ \E b \in Bufs : bpin(t, b)
    \/ \E b \in Bufs : bunpin(t, b)

Spec == Init /\ [][Next]_vars

\* callers that also write, and that may pass bwrite and brelse any buffer
IONext ==
  \E t \in Threads :
    \/ \E d \in Devs, blk \in Blocks : bget(t, d, blk) /\ UNCHANGED started
    \/ BreadSteps(t)
    \/ \E b \in Bufs, p \in Payloads : bwrite(t, b, p)
    \/ \E b \in Bufs : brelse(t, b)

IOSpec == Init /\ [][IONext]_vars

\* NCOLD threads, each reading its own block once and releasing it
ColdStep(t) ==
  \/ /\ t \notin started
     /\ \E d \in Devs : bget(t, d, ColdBlk(t))
     /\ started' = started \cup {t}
  \/ BreadSteps(t)
  \/ \E b \in held[t] : brelse(t, b)

ColdNext == \E t \in ColdThreads : ColdStep(t)

\* every core keeps running its thread
ColdSpec ==
  Init /\ [][ColdNext]_vars /\ \A t \in ColdThreads : WF_vars(ColdStep(t))

\* ------------------------------------------------- the frame allocator
KNext ==
  \E c \in Cores :
    \/ \E pa \in Frames \cup BadAddrs : kfree(c, pa)
    \/ kalloc(c)
    \/ kalloc_scan(c)
    \/ kalloc_relock(c)
    \/ kalloc_steal(c)

KSpec == Init /\ [][KNext]_vars

\* the steps of a kalloc call that left the fast path
KProgress(c) == kalloc_scan(c) \/ kalloc_relock(c) \/ kalloc_steal(c)

\* callers that free only frames they were given
KLiveNext ==
  \E c \in Cores :
    \/ \E pa \in Frames : kfree(c, pa)
    \/ kalloc(c)
    \/ KProgress(c)

\* every core keeps running the call it is in; a core spinning on a lock that
\* is free again and again gets it
KLiveSpec ==
  Init /\ [][KLiveNext]_vars /\ \A c \in Cores : SF_vars(KProgress(c))

\* ------------------------------- the shared-refcounted frame allocator
CowNext ==
  \/ cow_kalloc
  \/ \E pa \in Frames : cow_kfree(pa)
  \/ \E pa \in Frames : add_refcnt(pa)

CowSpec == Init /\ [][CowNext]_vars

\* ======================================================= the claims
\* pcs of a thread that bget has given a buffer (th[t].b) and that has not
\* yet decremented its refcnt in brelse
Selecting == {"release", "sleep", "bread", "brelse"}

\* threads that selected b in bget (hit or recycle) and have not released it
Users(b) ==
  {t \in AllThreads : b \in held[t] \/ (th[t].b = b /\ th[t].pc \in Selecting)}

\* threads between the acquiresleep of a bread of b and the releasesleep of
\* its brelse
Holders(b) ==
  {t \in AllThreads : b \in held[t] \/ (th[t].b = b /\ th[t].pc = "bread")}

\* C1: no step overwrites the dev, blockno or valid field of a buffer whose
\* refcnt is nonzero (valid only ever goes from 0 to 1 on such a buffer).
C1_NoRepurposeInUse ==
  [][\A b \in Bufs :
       refcnt[b] # 0 =>
         /\ dev'[b] = dev[b]
         /\ blockno'[b] = blockno[b]
         /\ (valid[b] = 1 => valid'[b] = 1)]_vars

\* C2: bget stops with "bget: no buffers" only when no bucket holds a buffer
\* with refcnt 0.
C2_PanicOnlyWhenNoneFree ==
  panicked = "bget: no buffers" => Free = {}

\* C3: in the cold-miss scenario every bread that was issued eventually
\* returns its buffer to the caller.
C3_EveryCallReturns ==
  \A t \in ColdThreads : (t \in started) ~> (held[t] # {})

\* C4: at most one thread at a time is between a bread that returned buffer
\* b (its acquiresleep) and the matching brelse.
C4_OneHolder ==
  \A b \in Bufs : Cardinality(Holders(b)) <= 1

\* C4 witness: one thread has b checked out while another, which hit the
\* same buffer in bget, waits in acquiresleep.
C4_Witness ==
  \E b \in Bufs : \E t1, t2 \in Threads :
    /\ t1 # t2
    /\ b \in held[t1]
    /\ th[t2].pc = "sleep"
    /\ th[t2].b = b

\* C5: no two buffers with refcnt > 0 carry the same (dev, blockno).
C5_Deduplicated ==
  \A b1, b2 \in Bufs :
    (b1 # b2 /\ refcnt[b1] > 0 /\ refcnt[b2] > 0)
      => ~(dev[b1] = dev[b2] /\ blockno[b1] = blockno[b2])

\* C6: while no bucket spinlock is held, refcnt of every buffer is the
\* number of bget selections not yet undone by brelse plus the number of
\* unmatched bpin calls; and in every state refcnt is not negative and is 0
\* exactly when the buffer has no holder, no waiter and no pin.
C6_RefcntAccounting ==
  \A b \in Bufs :
    /\ (\A k \in Buckets : bktlock[k] = NoThread) =>
         refcnt[b] = Cardinality(Users(b)) + pins[b]
    /\ refcnt[b] >= 0
    /\ (refcnt[b] = 0 <=> (Users(b) = {} /\ pins[b] = 0))

\* C6 witness: a pinned buffer that one thread holds and another waits for,
\* with no bucket spinlock held.
C6_Witness ==
  /\ \A k \in Buckets : bktlock[k] = NoThread
  /\ \E b \in Bufs : pins[b] = 1 /\ Cardinality(Users(b)) = 2 /\ refcnt[b] = 3

\* C7: the buffer bread returns carries the requested dev and blockno, is
\* valid, and holds the payload last written to that block.
C7_BreadReturnsRequested ==
  [][\A t \in Threads :
       (th[t].pc = "bread" /\ th'[t].pc = "idle") =>
         LET b == th[t].b
         IN /\ dev'[b] = th[t].dev
            /\ blockno'[b] = th[t].blk
            /\ valid'[b] = 1
            /\ data'[b] = disk'[th[t].blk]]_vars

\* C8: bwrite and brelse by a thread that does not hold the buffer's sleep
\* lock stop the kernel and change nothing else; bwrite by the holder writes
\* the block and leaves the lock and the refcnt alone.
C8_LockRequired ==
  [][/\ (panicked' \in {"bwrite", "brelse"} /\ panicked = "") =>
          UNCHANGED <<dev, blockno, valid, refcnt, data, next, prev, sleeplk,
                      bktlock, evlock, disk, th, held, pins>>
     /\ \A t \in Threads, b \in Bufs :
          /\ \A p \in Payloads :
               bwrite(t, b, p) =>
                 /\ (sleeplk[b] # t <=> panicked' = "bwrite")
                 /\ (sleeplk[b] = t =>
                       /\ disk'[blockno[b]] = p
                       /\ UNCHANGED <<sleeplk, refcnt, next, prev>>)
          /\ brelse(t, b) => (sleeplk[b] # t <=> panicked' = "brelse")
     /\ (disk' # disk) =>
          \E t \in Threads, b \in Bufs :
            sleeplk[b] = t /\ th[t].pc = "idle" /\ disk'[blockno[b]] # disk[blockno[b]]]_vars

\* C8 witness: the kernel stopped in bwrite, called without the sleep lock,
\* while another thread has a buffer checked out.
C8_Witness ==
  /\ panicked = "bwrite"
  /\ \E t \in Threads : held[t] # {}

\* C9: every frame is on exactly one core's free list exactly once, or
\* allocated, never both; free plus allocated frames number NFRAMES.
Occurrences(f) ==
  Cardinality({<<i, j>> \in Cores \X (1 .. NFRAMES + 1) :
                  j <= Len(KList(i)) /\ KList(i)[j] = f})

TotalFree ==
  Cardinality({<<i, j>> \in Cores \X (1 .. NFRAMES + 1) : j <= Len(KList(i))})

C9_FrameConservation ==
  /\ \A f \in Frames : Occurrences(f) + (IF f \in alloc THEN 1 ELSE 0) = 1
  /\ TotalFree + Cardinality(alloc) = NFRAMES

\* C9 witness: frames are spread over two cores' lists and a caller while a
\* third core, its own list empty, holds a donor's lock and is about to steal.
C9_Witness ==
  /\ alloc # {}
  /\ \E i, j, c \in Cores :
       /\ i # j /\ c # i /\ c # j
       /\ Len(KList(i)) >= 1 /\ Len(KList(j)) >= 1
       /\ cpu[c].pc = "steal" /\ cpu[c].find_cpu \in {i, j}

\* ceil(c / 2)
HalfUp(c) == (c \div 2) + (c % 2)

\* C10: kalloc leaves its core's list only when it is empty; the scan picks
\* the first other core, in ascending id, met with a nonzero count c; the
\* steal moves the first ceil(c/2) frames of the donor's list, the donor
\* keeps the other floor(c/2), and after the pop the caller's list holds the
\* stolen frames but the first, which kalloc returns.
C10_Steal ==
  [][\A c \in Cores :
       /\ (cpu[c].pc = "idle" /\ cpu'[c].pc = "scan") =>
            (freelist[c] = NULL /\ freepg_cnt[c] = 0)
       /\ (cpu[c].pc = "idle" /\ freelist[c] # NULL /\ kmem_lock[c] = NULL
           /\ freelist'[c] # freelist[c] /\ alloc \subseteq alloc') =>
            /\ alloc' = alloc \cup {freelist[c]}
            /\ \A d \in Cores \ {c} : freelist'[d] = freelist[d]
       /\ (cpu[c].pc = "scan" /\ cpu'[c] # cpu[c] /\ cpu'[c].find_cpu = -1) =>
            /\ cpu'[c].i = cpu[c].i + 1
            /\ (cpu[c].i = c \/ freepg_cnt[cpu[c].i] = 0)
       /\ (cpu[c].pc = "scan" /\ cpu'[c].find_cpu # -1) =>
            /\ cpu'[c].find_cpu = cpu[c].i
            /\ cpu[c].i # c
            /\ freepg_cnt[cpu[c].i] # 0
       /\ (cpu[c].pc = "steal" /\ cpu'[c].pc = "idle" /\ cpu[c].find_cpu # -1) =>
            LET d == cpu[c].find_cpu
                cnt == freepg_cnt[d]
                k == HalfUp(cnt)
                old == KList(d)
            IN /\ KList(c) = <<>>
               /\ cnt = Len(old)
               /\ cnt # 0
               /\ KWalk(run_next', freelist'[d], NFRAMES + 1) = SubSeq(old, k + 1, cnt)
               /\ KWalk(run_next', freelist'[c], NFRAMES + 1) = SubSeq(old, 2, k)
               /\ alloc' = alloc \cup {old[1]}
               /\ freepg_cnt'[d] = cnt - k
               /\ freepg_cnt'[d] = cnt \div 2
               /\ freepg_cnt'[d] >= 0
               /\ freepg_cnt'[c] = k - 1]_vars

\* C10 witness: a core with an empty list has found a donor with three
\* frames, holds both locks and is about to steal two of them.
C10_Witness ==
  \E c \in Cores :
    /\ cpu[c].pc = "steal"
    /\ cpu[c].find_cpu # -1
    /\ freepg_cnt[cpu[c].find_cpu] = 3
    /\ kmem_lock[c] = c
    /\ kmem_lock[cpu[c].find_cpu] = c

\* C11: a kalloc call returns null (the steal step taken with no donor found)
\* only in a state where every core's list is empty and its count is 0, also
\* with other cores running kalloc and kfree during the scan; and no step of
\* kalloc stops the kernel.
C11_NullOnlyWhenAllEmpty ==
  [][\A c \in Cores :
       /\ (cpu[c].pc = "steal" /\ cpu[c].find_cpu = -1 /\ cpu'[c].pc = "idle") =>
            \A i \in Cores : freepg_cnt[i] = 0 /\ freelist[i] = NULL
       /\ (cpu[c].pc # "idle" /\ cpu'[c] # cpu[c]) => panicked' = panicked]_vars

\* C11 witness: a core whose scan found no donor is about to return null
\* while every list is empty.
C11_Witness ==
  \E c \in Cores :
    /\ cpu[c].pc = "steal"
    /\ cpu[c].find_cpu = -1
    /\ \A i \in Cores : freepg_cnt[i] = 0

C13_CowRelease ==
  /\ [](\A f \in Frames :
          /\ cow_refcnt[f] >= 0
          /\ (f \in CowFree <=> cow_refcnt[f] = 0)
          /\ Cardinality({j \in 1 .. Len(cow_freelist) : cow_freelist[j] = f}) <= 1)
  /\ [][\A f \in Frames :
          /\ (cow_refcnt'[f] < cow_refcnt[f]) =>
               /\ cow_refcnt'[f] = cow_refcnt[f] - 1
               /\ (f \in CowFree' <=> cow_refcnt[f] = 1)
          /\ (f \notin CowFree /\ f \in CowFree') => cow_refcnt[f] = 1
          /\ (f \in CowFree /\ f \notin CowFree') =>
               (cow_refcnt[f] = 0 /\ cow_refcnt'[f] = 1)
          /\ (cow_refcnt[f] >= 2 /\ cow_refcnt'[f] # cow_refcnt[f]) =>
               f \notin CowFree']_vars

\* C13 witness: a frame shared by MaxRef page table entries, off the free
\* list, next to a frame that its last kfree put back on it.
C13_Witness ==
  \E f, g \in Frames :
    /\ cow_refcnt[f] = MaxRef /\ f \notin CowFree
    /\ cow_refcnt[g] = 0 /\ cow_freelist # <<>> /\ Head(cow_freelist) = g
    /\ g # NFRAMES

\* C14: a thread takes the eviction lock only while holding no bucket
\* spinlock, and takes a bucket spinlock only while every bucket spinlock it
\* holds has a lower index; it never tries to take one it holds.
C14_LockHierarchy ==
  [][\A t \in AllThreads :
       /\ (evlock # t /\ evlock' = t) => \A k \in Buckets : bktlock[k] # t
       /\ \A k \in Buckets :
            (bktlock[k] # t /\ bktlock'[k] = t) =>
              \A j \in Buckets : bktlock[j] = t => j < k
       /\ (th[t].pc \in {"scan", "lockidx"} /\ panicked = "") =>
            panicked' # "acquire"]_vars

\* C14 witness: a thread on the cross-bucket path holds the eviction lock and
\* the spinlock of a bucket below the target, where it recorded a free buffer.
C14_Witness ==
  \E t \in Threads :
    /\ th[t].pc = "lockidx"
    /\ evlock = t
    /\ th[t].free_bkt # -1
    /\ th[t].free_bkt < th[t].idx
    /\ bktlock[th[t].free_bkt] = t

\* the buffers on bucket k's list, and the buckets whose list holds b
OnList(k) == {ListFwd(k)[j] : j \in 1 .. Len(ListFwd(k))}
BucketsOf(b) == {k \in Buckets : b \in OnList(k)}

\* b's bucket-protected state changes in this step
Touched(b) ==
  \/ refcnt'[b] # refcnt[b]
  \/ dev'[b] # dev[b]
  \/ blockno'[b] # blockno[b]
  \/ valid'[b] < valid[b]
  \/ next'[b] # next[b]
  \/ prev'[b] # prev[b]

\* C15: a step that changes the refcnt, dev, blockno or valid field or the
\* list links of a buffer is taken by a thread holding the spinlock of the
\* bucket whose list holds the buffer: on the cross-bucket path the thread
\* holds that spinlock (and the eviction lock, and the donor's spinlock when
\* it moves a buffer) across the step; in the critical sections that are one
\* step, the spinlock is free before the step takes it.
C15_ChangesUnderOwnLock ==
  [][\A b \in Bufs :
       Touched(b) =>
         \A k \in BucketsOf(b) :
           \/ /\ bktlock[k] = NoThread
              /\ \A t \in AllThreads :
                   th[t].pc \in {"recheck", "recheck2", "migrate"} => th'[t] = th[t]
           \/ \E t \in AllThreads :
                /\ th[t].pc \in {"recheck", "recheck2", "migrate"}
                /\ th'[t] # th[t]
                /\ bktlock[k] = t
                /\ bktlock[th[t].idx] = t
                /\ evlock = t
                /\ (th[t].free_bkt # -1 => bktlock[th[t].free_bkt] = t)]_vars

\* C15 witness: a thread on the cross-bucket path is about to recycle a
\* buffer of the target bucket while holding two bucket spinlocks.
C15_Witness ==
  \E t \in Threads :
    /\ th[t].pc = "recheck2"
    /\ th[t].free_buf \in OnList(th[t].idx)
    /\ Cardinality({k \in Buckets : bktlock[k] = t}) = 2

\* next and prev are inverse on every node
LinksInverse == \A n \in Nodes : prev[next[n]] = n /\ next[prev[n]] = n

\* following next from bucket k's head comes back to the head
Circular(k) ==
  \E j \in 0 .. NBUF :
    /\ Len(ListFwd(k)) = j
    /\ (IF j = 0 THEN next[BktHead(k)] ELSE next[ListFwd(k)[j]]) = BktHead(k)

\* C16: outside the two steps of a migration, every buffer is on exactly one
\* bucket's list exactly once, every list is a circular doubly linked list
\* (next and prev inverse, next from the head returns to the head), and the
\* lists hold NBUF buffers in all.
C16_ListIntegrity ==
  (\A t \in AllThreads : th[t].pc # "migrate") =>
    /\ LinksInverse
    /\ \A k \in Buckets : Circular(k)
    /\ \A b \in Bufs :
         Cardinality({<<k, j>> \in Buckets \X (1 .. NBUF) :
                        j <= Len(ListFwd(k)) /\ ListFwd(k)[j] = b}) = 1
    /\ \A k \in Buckets : ListBwd(k) = [j \in 1 .. Len(ListFwd(k)) |->
                                          ListFwd(k)[Len(ListFwd(k)) + 1 - j]]

\* C16 witness: a migration has unlinked its buffer and is about to insert
\* it while another thread is inside brelse for a buffer of the same bucket.
C16_Witness ==
  \E t1, t2 \in Threads :
    /\ th[t1].pc = "migrate"
    /\ th[t2].pc = "brelse"
    /\ th[t2].idx = th[t1].idx

\* thread t recycles the free buffer b of its target bucket in this step
Recycles(t, b) ==
  /\ th[t].pc \in {"idle", "recheck", "recheck2"}
  /\ th'[t].pc \in {"sleep", "release"}
  /\ th'[t].b = b
  /\ refcnt[b] = 0
  /\ refcnt'[b] = 1
  /\ b \in OnList(th'[t].idx)
  /\ Cached(th'[t].dev, th'[t].blk) \cap OnList(th'[t].idx) = {}

\* C17: brelse puts a buffer whose refcnt drops to 0 at the head of its
\* bucket's list, and a bget that recycles a free buffer of the target bucket
\* takes the free buffer nearest the tail, on the first scan and on the scans
\* made after the eviction lock is taken.
C17_LruWithinBucket ==
  [][\A t \in AllThreads :
       /\ (th[t].pc = "brelse" /\ th'[t].pc = "idle" /\ refcnt'[th[t].b] = 0) =>
            next'[BktHead(th[t].idx)] = th[t].b
       /\ \A b \in Bufs :
            Recycles(t, b) => b = FirstIn(ListBwd(th'[t].idx), Free)]_vars

\* C17 witness: a thread past the eviction lock is about to re-scan a target
\* bucket that holds two free buffers.
C17_Witness ==
  \E t \in Threads :
    /\ th[t].pc = "recheck2"
    /\ Cardinality(Free \cap OnList(th[t].idx)) >= 2

\* C18: whenever core i's allocator lock is free, kmem[i].freepg_cnt is the
\* number of frames on kmem[i].freelist, and it is never negative.
C18_CountIsLength ==
  \A i \in Cores :
    /\ freepg_cnt[i] >= 0
    /\ kmem_lock[i] = NULL => freepg_cnt[i] = Len(KList(i))

\* C18 witness: after a steal of two of four frames and the pop of one, the
\* donor keeps two frames, the thief one, and no lock is held.
C18_Witness ==
  \E c, d \in Cores :
    /\ c # d
    /\ KList(d) = <<2, 1>> /\ freepg_cnt[d] = 2
    /\ KList(c) = <<3>> /\ freepg_cnt[c] = 1
    /\ alloc = {4}
    /\ \A i \in Cores : kmem_lock[i] = NULL

\* C19: on every path through bget no spinlock is acquired by the thread
\* that holds it and none is released by a thread that does not hold it, and
\* a thread that has returned from bget (it is at acquiresleep or past it)
\* holds neither a bucket spinlock nor the eviction lock.
C19_SpinlockBalance ==
  /\ panicked \notin {"acquire", "release"}
  /\ \A t \in AllThreads :
       th[t].pc \in {"sleep", "bread"} =>
         /\ evlock # t
         /\ \A k \in Buckets : bktlock[k] # t

\* C19 witness: the scan loop has ended with locked_idx = 0 while the thread
\* already holds bkt[0].lock, so lines 131-132 acquire it a second time.
C19_Witness ==
  \E t \in AllThreads :
    /\ th[t].pc = "lockidx"
    /\ th[t].locked_idx = 0
    /\ bktlock[0] = t

\* C20: a buffer with refcnt > 0 is on the list of bucket
\* blockno mod NBUCKET, the bucket whose spinlock brelse, bpin and bunpin take.
C20_BucketPlacement ==
  \A b \in Bufs : refcnt[b] > 0 => b \in OnList(blockno[b] % NBUCKET)

\* C20 witness: a thread is inside brelse, holding the lock chosen from
\* b->blockno, on a buffer that is in use.
C20_Witness ==
  \E t \in AllThreads :
    /\ th[t].pc = "brelse"
    /\ refcnt[th[t].b] > 0

====
